---- MODULE Spec2Model ----
(***************************************************************************)
(* Model of the graph-query core of src/rag.py: GraphContext.parse,        *)
(* GraphContext.path, GraphContext.deduplicate, GraphContext.plot and      *)
(* GraphContext.__call__, together with AutoId.valid.                      *)
(*                                                                         *)
(* Text is a sequence of one-character strings, so that strip, lower,      *)
(* split and the substring tests act on characters as Python's do.         *)
(* Python's None is the empty tuple NoneV and a present value x is the     *)
(* one-element tuple Some(x).                                              *)
(***************************************************************************)
EXTENDS Integers, Sequences, FiniteSets, TLC

VARIABLES pc, question, embeddings, ret, calls

vars == <<pc, question, embeddings, ret, calls>>

\* ------------------------------------------------------------------ bounds

\* Longest question, counted in the pieces of Chunks it is written with.
MaxChunks == 4

\* Most nodes of a traversal result handed to deduplicate.
MaxNodes == 3

\* Most "->"-separated segments of a question put to GraphContext.
MaxSegments == 2

\* Most nodes of a traversal result the store returns to GraphContext.
MaxCallNodes == 2

\* ------------------------------------------------------- Python's values

NoneV == <<>>

Some(x) == <<x>>

\* bool(x) of an optional text or list: None and the empty value are falsy.
Truthy(opt) == opt # NoneV /\ opt[1] # <<>>

\* --------------------------------------------------------- str operations

LowerChar(c) ==
    CASE c = "A" -> "a"
      [] c = "B" -> "b"
      [] c = "G" -> "g"
      [] c = "Q" -> "q"
      [] OTHER -> c

\* str.lower()
lower(s) == [i \in 1..Len(s) |-> LowerChar(s[i])]

IsSpace(c) == c = " "

\* str.strip(): leading and trailing whitespace removed
strip(s) ==
    LET keep == {i \in 1..Len(s) : ~IsSpace(s[i])}
    IN IF keep = {} THEN <<>>
       ELSE LET lo == CHOOSE i \in keep : \A j \in keep : i <= j
                hi == CHOOSE i \in keep : \A j \in keep : i >= j
            IN SubSeq(s, lo, hi)

\* places where sub occurs in s
Occurrences(s, sub) ==
    {i \in 1..(Len(s) - Len(sub) + 1) : SubSeq(s, i, i + Len(sub) - 1) = sub}

\* sub in s
contains(s, sub) == Occurrences(s, sub) # {}

\* str.find, 1-based; 0 when absent
find(s, sub) ==
    IF Occurrences(s, sub) = {} THEN 0
    ELSE CHOOSE i \in Occurrences(s, sub) : \A j \in Occurrences(s, sub) : i <= j

\* str.startswith
startswith(s, p) == Len(s) >= Len(p) /\ SubSeq(s, 1, Len(p)) = p

\* str.split(sep, maxsplit); maxsplit < 0 means no limit
RECURSIVE split(_, _, _)
split(s, sep, maxsplit) ==
    IF maxsplit = 0 \/ find(s, sep) = 0 THEN <<s>>
    ELSE LET i == find(s, sep)
         IN <<SubSeq(s, 1, i - 1)>>
            \o split(SubSeq(s, i + Len(sep), Len(s)), sep, maxsplit - 1)

\* ------------------------------------------------------ GraphContext.parse

\* the "->" delimiter
Arrow == <<"-", ">">>

\* prefix = "gq: "
prefix == <<"g", "q", ":", " ">>

IsGraphQuery(q) == contains(q, Arrow) \/ startswith(lower(strip(q)), prefix)

\* Chain with the per-segment strip forgotten.
ChainNoStrip(q) == split(lower(strip(q)), Arrow, -1)

\* concepts = [x.strip() for x in question.strip().lower().split("->")]
Chain(q) ==
    LET parts == split(lower(strip(q)), Arrow, -1)
    IN [i \in 1..Len(parts) |-> strip(parts[i])]

Last(s) == s[Len(s)]

Front(s) == SubSeq(s, 1, Len(s) - 1)

\* QueryParts with the maxsplit argument of split forgotten.
QueryPartsSplitAll(seg) ==
    LET parts == split(seg, prefix, -1)
    IN [i \in 1..Len(parts) |-> strip(parts[i])]

\* [x.strip() for x in query.split(prefix, 1)]
QueryParts(seg) ==
    LET parts == split(seg, prefix, 1)
    IN [i \in 1..Len(parts) |-> strip(parts[i])]

\* query, concepts of parse(question); context is always None
parse(q) ==
    IF ~IsGraphQuery(q)
    THEN [query |-> NoneV, concepts |-> NoneV, context |-> NoneV]
    ELSE LET chain == Chain(q)
         IN IF ~contains(Last(chain), prefix)
            THEN [query |-> NoneV, concepts |-> Some(chain), context |-> NoneV]
            ELSE LET parts == QueryParts(Last(chain))
                     concepts == IF parts[1] # <<>>
                                 THEN Append(Front(chain), parts[1])
                                 ELSE Front(chain)
                 IN [query |-> IF Len(parts) > 1 THEN Some(parts[2])
                               ELSE Some(parts),
                     concepts |-> Some(concepts),
                     context |-> NoneV]

NoEmbeddings == [graph |-> FALSE]

NoCalls == <<>>

\* ----------------------------------------------------------- AutoId.valid

\* An id is a pair <<kind, n>>: a UUID string, a string of digits, an int, or
\* any other string. UUID(str(uid)) succeeds on the first; the second and
\* third are numeric.
valid(uid) == uid[1] = "uuid" \/ uid[1] = "int" \/ uid[1] = "digits"

\* ------------------------------------------- the traversal result (store)
\* A graph is [scan, id, topic, text, edges]: the node handles in scan order,
\* the three attributes of each node, and the directed edges as a function
\* from <<source, target>> to the edge's attributes.

count(g) == Len(g.scan)

scan(g) == g.scan

Nodes(g) == {g.scan[i] : i \in 1..Len(g.scan)}

attribute(g, node, name) ==
    CASE name = "id" -> g.id[node]
      [] name = "topic" -> g.topic[node]
      [] name = "text" -> g.text[node]

\* edges(node): target -> attributes
edges(g, node) ==
    [t \in {e[2] : e \in {d \in DOMAIN g.edges : d[1] = node}} |-> g.edges[<<node, t>>]]

\* addedge(source, target, **attributes): the edge is set, an existing one
\* takes the attributes given
addedge(g, source, target, attributes) ==
    [g EXCEPT !.edges =
        [e \in DOMAIN g.edges \cup {<<source, target>>} |->
            IF e = <<source, target>> THEN attributes ELSE g.edges[e]]]

RECURSIVE Without(_, _)
Without(seq, gone) ==
    IF seq = <<>> THEN <<>>
    ELSE IF Head(seq) \in gone THEN Without(Tail(seq), gone)
    ELSE <<Head(seq)>> \o Without(Tail(seq), gone)

SeqRange(seq) == {seq[i] : i \in 1..Len(seq)}

\* delete(ids): the nodes go, and with them every edge they are an end of
delete(g, ids) ==
    LET gone == SeqRange(ids)
        kept == {e \in DOMAIN g.edges : e[1] \notin gone /\ e[2] \notin gone}
        left == Nodes(g) \ gone
    IN [scan |-> Without(g.scan, gone),
        id |-> [n \in left |-> g.id[n]],
        topic |-> [n \in left |-> g.topic[n]],
        text |-> [n \in left |-> g.text[n]],
        edges |-> [e \in kept |-> g.edges[e]]]

\* label = topic if AutoId.valid(uid) and topic else uid
Label(g, node) ==
    LET uid == attribute(g, node, "id")
        topic == attribute(g, node, "topic")
    IN IF valid(uid) /\ Truthy(topic) THEN topic[1] ELSE uid

\* ------------------------------------------------ embeddings.similarity
\* emb is [graph, result, table]: whether the embeddings have a graph, the
\* traversal result the store returns, and a score for every two of its nodes.

\* the first node in scan order carrying the label
FirstWith(g, label) ==
    g.scan[CHOOSE i \in 1..Len(g.scan) :
              /\ Label(g, g.scan[i]) = label
              /\ \A j \in 1..(i - 1) : Label(g, g.scan[j]) # label]

\* equal texts score 1.0; other texts score what the table says
Score(emb, a, b) ==
    IF a = b THEN 100
    ELSE emb.table[{FirstWith(emb.result, a), FirstWith(emb.result, b)}]

\* threshold passed by plot: self.deduplicate(graph, 0.9), in hundredths
Threshold == 90

\* the first occurrence of the largest score: 1-based place in the candidates
BestIndex(scores) ==
    CHOOSE i \in 1..Len(scores) :
        /\ \A j \in 1..Len(scores) : scores[j] <= scores[i]
        /\ \A j \in 1..(i - 1) : scores[j] < scores[i]

\* similarity(label, candidates)[0]: (index, score) of the best candidate.
\* emb holds the model's score of every two texts.
similarity(emb, label, candidates) ==
    LET scores == [i \in 1..Len(candidates) |-> Score(emb, label, candidates[i])]
    IN [pid |-> BestIndex(scores), pscore |-> scores[BestIndex(scores)]]

\* ------------------------------------------------ GraphContext.deduplicate

\* topics is a dict label -> node, kept as the pairs in insertion order
TopicNames(topics) == [i \in 1..Len(topics) |-> topics[i][1]]

TopicsSet(topics, label, node) ==
    IF \E i \in 1..Len(topics) : topics[i][1] = label
    THEN [i \in 1..Len(topics) |->
            IF topics[i][1] = label THEN <<label, node>> ELSE topics[i]]
    ELSE Append(topics, <<label, node>>)

\* Python's "not primary": None is falsy, and so is the node handle 0
NotPrimary(primary) == primary = NoneV \/ primary[1] = 0

\* for target, attributes in graph.edges(node).items():
\*     if primary != target: graph.addedge(primary, target, **attributes)
RECURSIVE CopyEdges(_, _, _, _)
CopyEdges(g, out, targets, primary) ==
    IF targets = {} THEN g
    ELSE LET t == CHOOSE x \in targets : TRUE
             g2 == IF primary # t THEN addedge(g, primary, t, out[t]) ELSE g
         IN CopyEdges(g2, out, targets \ {t}, primary)

\* ScanNode with "deletes.append(node)" forgotten.
ScanNodeNoDelete(st, node, threshold, emb) ==
    LET g == st.graph
        label == Label(g, node)
        topicnames == TopicNames(st.topics)
        best == IF topicnames # <<>> THEN similarity(emb, label, topicnames)
                ELSE [pid |-> 1, pscore |-> 0]
        primary == IF best.pscore >= threshold
                   THEN Some(st.topics[best.pid][2]) ELSE NoneV
        entry == [node |-> node, label |-> label, names |-> topicnames,
                  pid |-> best.pid, pscore |-> best.pscore, primary |-> primary]
    IN IF NotPrimary(primary)
       THEN [st EXCEPT !.labels = [n \in DOMAIN st.labels \cup {node} |->
                                      IF n = node THEN label ELSE st.labels[n]],
                       !.topics = TopicsSet(st.topics, label, node),
                       !.log = Append(st.log, entry)]
       ELSE LET out == edges(g, node)
            IN [st EXCEPT !.graph = CopyEdges(g, out, DOMAIN out, primary[1]),
                          !.log = Append(st.log, entry)]

\* one turn of "for node in graph.scan()"; log keeps what each turn decided
ScanNode(st, node, threshold, emb) ==
    LET g == st.graph
        label == Label(g, node)
        topicnames == TopicNames(st.topics)
        best == IF topicnames # <<>> THEN similarity(emb, label, topicnames)
                ELSE [pid |-> 1, pscore |-> 0]
        primary == IF best.pscore >= threshold
                   THEN Some(st.topics[best.pid][2]) ELSE NoneV
        entry == [node |-> node, label |-> label, names |-> topicnames,
                  pid |-> best.pid, pscore |-> best.pscore, primary |-> primary]
    IN IF NotPrimary(primary)
       THEN [st EXCEPT !.labels = [n \in DOMAIN st.labels \cup {node} |->
                                      IF n = node THEN label ELSE st.labels[n]],
                       !.topics = TopicsSet(st.topics, label, node),
                       !.log = Append(st.log, entry)]
       ELSE LET out == edges(g, node)
            IN [st EXCEPT !.graph = CopyEdges(g, out, DOMAIN out, primary[1]),
                          !.deletes = Append(st.deletes, node),
                          !.log = Append(st.log, entry)]

RECURSIVE ScanAll(_, _, _, _)
ScanAll(st, todo, threshold, emb) ==
    IF todo = <<>> THEN st
    ELSE ScanAll(ScanNode(st, Head(todo), threshold, emb), Tail(todo),
                 threshold, emb)

EmptyMap == [n \in {} |-> <<>>]

\* deduplicate(graph, threshold): the graph and labels returned, with the
\* deletes list and the log of the scan
deduplicate(g, threshold, emb) ==
    LET start == [graph |-> g, labels |-> EmptyMap, topics |-> <<>>,
                  deletes |-> <<>>, log |-> <<>>]
        done == ScanAll(start, scan(g), threshold, emb)
    IN [graph |-> delete(done.graph, done.deletes), labels |-> done.labels,
        deletes |-> done.deletes, log |-> done.log]

\* ------------------------------------------------------ traversal results

Weights == {1, 2}

\* scores just below and at the threshold
Scores == {89, 90}

\* handles 1..k in order, or the same with one of them the handle 0
Scans(k) ==
    {[i \in 1..k |-> i]} \cup {[i \in 1..k |-> IF i = z THEN 0 ELSE i] : z \in 1..k}

\* a node's id and topic: an auto id (digits, or a UUID) with a topic, an
\* auto id without one, an id given by the user
Digits == [kind |-> "digits", topic |-> TRUE]

Uuid == [kind |-> "uuid", topic |-> TRUE]

Bare == [kind |-> "digits", topic |-> FALSE]

Named == [kind |-> "name", topic |-> TRUE]

Pairs(nodes) == {e \in nodes \X nodes : e[1] # e[2]}

NoEdges == [e \in {} |-> 0]

\* no edge, or one edge of either weight between two nodes
EdgeMaps(nodes) ==
    {NoEdges} \cup UNION {[{e} -> Weights] : e \in Pairs(nodes)}

GraphOf(sc, prof, edgemap) ==
    [scan |-> sc,
     id |-> [n \in SeqRange(sc) |-> <<prof[n].kind, n>>],
     topic |-> [n \in SeqRange(sc) |->
                  IF prof[n].topic THEN Some(<<"topic", 1>>) ELSE NoneV],
     text |-> [n \in SeqRange(sc) |-> <<"text", n>>],
     edges |-> edgemap]

\* the graphs of up to maxNodes nodes with these profiles and edges
Graphs(maxNodes, profiles, withEdges) ==
    UNION {
      {GraphOf(sc, prof, em) :
          prof \in [SeqRange(sc) -> profiles],
          em \in IF withEdges THEN EdgeMaps(SeqRange(sc)) ELSE {NoEdges}}
      : sc \in UNION {Scans(k) : k \in 0..maxNodes}}

\* the traversal results the store returns to GraphContext
CallGraphs == Graphs(MaxCallNodes, {Uuid, Bare}, FALSE)

\* the model's similarity: a score for every two nodes of the graph
ScoreTables(g) == [{p \in SUBSET Nodes(g) : Cardinality(p) = 2} -> Scores]

\* ------------------------------------------------- deduplicate, on its own

InitDedup ==
    /\ pc = "ready"
    /\ question = <<>>
    /\ \E g \in Graphs(MaxNodes, {Digits, Named}, TRUE) : \E table \in ScoreTables(g) :
          embeddings = [graph |-> TRUE, result |-> g, table |-> table]
    /\ ret = NoneV
    /\ calls = NoCalls

Deduplicate ==
    /\ pc = "ready"
    /\ pc' = "once"
    /\ ret' = <<deduplicate(embeddings.result, Threshold, embeddings)>>
    /\ UNCHANGED <<question, embeddings, calls>>

DeduplicateAgain ==
    /\ pc = "once"
    /\ pc' = "twice"
    /\ ret' = Append(ret, deduplicate(ret[1].graph, Threshold, embeddings))
    /\ UNCHANGED <<question, embeddings, calls>>

NextDedup == Deduplicate \/ DeduplicateAgain

SpecDedup == InitDedup /\ [][NextDedup]_vars

\* ----------------------------------------------------- claims on deduplicate

\* the turns of a pass that found a primary to merge the node into
Merges(pass) == {i \in 1..Len(pass.log) : ~NotPrimary(pass.log[i].primary)}

\* C3 as claimed: every edge of the input graph that has a merged node d as
\* source or as target, and a surviving node x other than d's primary p at
\* its other end, is on p after deduplicate, between p and x in the same
\* direction and with the same attributes.
C3_AsClaimed ==
    pc = "once" =>
        LET g0 == embeddings.result
            g1 == ret[1].graph
        IN \A i \in Merges(ret[1]) : \A e \in DOMAIN g0.edges :
              LET d == ret[1].log[i].node
                  p == ret[1].log[i].primary[1]
              IN /\ (e[1] = d /\ e[2] \in Nodes(g1) /\ e[2] # p) =>
                        /\ <<p, e[2]>> \in DOMAIN g1.edges
                        /\ g1.edges[<<p, e[2]>>] = g0.edges[e]
                 /\ (e[2] = d /\ e[1] \in Nodes(g1) /\ e[1] # p) =>
                        /\ <<e[1], p>> \in DOMAIN g1.edges
                        /\ g1.edges[<<e[1], p>>] = g0.edges[e]

\* C7: a second pass of deduplicate, with the same threshold and scores, over
\* the graph a first pass returned finds no duplicate, leaves the graph as it
\* is (no edge added, no node deleted) and returns the same labels.
C7_Idempotent ==
    pc = "twice" =>
        /\ Merges(ret[2]) = {}
        /\ ret[2].deletes = <<>>
        /\ ret[2].graph = ret[1].graph
        /\ ret[2].labels = ret[1].labels

\* the first pass merged a node away and left two nodes or more to rescan
C7_Witness ==
    /\ pc = "twice"
    /\ ret[1].deletes # <<>>
    /\ Len(ret[1].graph.scan) >= 2
    /\ Len(ret[2].log) >= 2

\* C9 as claimed: whatever the handles, a scanned node whose best score
\* against the labels registered so far is at or above the threshold is
\* deleted, gets no label and is no primary; any other node gets its label.
C9_AsClaimed ==
    pc = "once" =>
        \A i \in 1..Len(ret[1].log) :
            LET e == ret[1].log[i]
            IN IF e.names # <<>> /\ e.pscore >= Threshold
               THEN /\ e.node \notin Nodes(ret[1].graph)
                    /\ e.node \notin DOMAIN ret[1].labels
               ELSE /\ e.node \in DOMAIN ret[1].labels
                    /\ ret[1].labels[e.node] = e.label

\* ------------------------------------------------------- GraphContext.path

\* self.context = 10, the LIMIT of the path query
Context == 10

\* The query text is kept as its pieces, each <<text, n>>: the literal text
\* and the value formatted into it (0 where there is none).
Anchor(uid) == <<"({id: \"%\"})", uid>>

Hop == <<"-[*1..4]->", 0>>

\* sep.join(items)
RECURSIVE join(_, _)
join(sep, items) ==
    IF items = <<>> THEN <<>>
    ELSE IF Len(items) = 1 THEN <<items[1]>>
    ELSE <<items[1], sep>> \o join(sep, Tail(items))

\* MatchQuery with a hop written before every anchor, the first included.
MatchQueryLeadingHop(ids, limit) ==
    <<<<"MATCH P=", 0>>>>
    \o (IF ids = <<>> THEN <<>> ELSE <<Hop>> \o join(Hop, ids))
    \o <<<<" RETURN P LIMIT %", limit>>>>

\* f"MATCH P={ids} RETURN P LIMIT {self.context}"
MatchQuery(ids, limit) ==
    <<<<"MATCH P=", 0>>>> \o join(Hop, ids) \o <<<<" RETURN P LIMIT %", limit>>>>

SearchCall(text, k, result) ==
    [fn |-> "search", text |-> text, k |-> k, result |-> result]

\* the searches of "for concept in concepts" up to the first empty answer,
\* where self.embeddings.search(concept, 1)[0] raises IndexError
RECURSIVE ConceptSearches(_, _, _)
ConceptSearches(concepts, answers, i) ==
    IF i > Len(concepts) THEN <<>>
    ELSE <<SearchCall(concepts[i], 1, answers[i])>>
         \o (IF answers[i] = <<>> THEN <<>>
             ELSE ConceptSearches(concepts, answers, i + 1))

\* path(question, concepts): answers[i] is what the i-th search returns, a
\* list of ids, best first. Gives the calls made, whether IndexError was
\* raised, and the query.
path(query, concepts, answers, limit) ==
    IF Truthy(concepts)
    THEN LET made == ConceptSearches(concepts[1], answers, 1)
             raised == \E i \in 1..Len(made) : made[i].result = <<>>
         IN [calls |-> made,
             raised |-> raised,
             query |-> IF raised THEN <<>>
                       ELSE MatchQuery([i \in 1..Len(made) |-> Anchor(made[i].result[1])],
                                       limit)]
    ELSE LET found == SubSeq(answers[1], 1, IF Len(answers[1]) < 3 THEN Len(answers[1]) ELSE 3)
         IN [calls |-> <<SearchCall(query[1], 3, found)>>,
             raised |-> FALSE,
             query |-> MatchQuery([i \in 1..Len(found) |-> Anchor(found[i])], limit)]

\* ------------------------------------------------------- GraphContext.plot

\* PlotOnCopy: deduplicate run on a copy, the caller's graph left as it was.
PlotOnCopy(g, emb) == [deduplicate(g, Threshold, emb) EXCEPT !.graph = g]

\* plot(graph): deduplicate(graph, 0.9) changes the caller's graph in place;
\* the image drawn from the graph and the labels is the response
plot(g, emb) == deduplicate(g, Threshold, emb)

\* --------------------------------------------------- GraphContext.__call__

\* the question returned: a text, or the default prompt with the concepts
\* formatted into it (which begins "Write a title", so is no question typed
\* with "->" in it before its concepts)
Text(t) == [kind |-> "text", text |-> t, concepts |-> NoneV]

Default(concepts) ==
    [kind |-> "Write a title and text summarizing the context.\nInclude the following concepts: % if they're mentioned in the context.",
     text |-> <<>>, concepts |-> concepts]

\* [{"id": ..., "text": ...} for node in list(graph.scan())]
ContextOf(g) ==
    [i \in 1..Len(scan(g)) |->
        [id |-> attribute(g, scan(g)[i], "id"),
         text |-> attribute(g, scan(g)[i], "text")]]

Returned(q, context, made) ==
    [raised |-> "", question |-> q, context |-> context, calls |-> made]

Raised(error, made) ==
    [raised |-> error, question |-> NoneV, context |-> NoneV, calls |-> made]

\* FinalQuestionRaw: the question typed is kept whatever was parsed.
FinalQuestionRaw(q, query, concepts) == Text(q)

\* question = query if query else default
FinalQuestion(q, query, concepts) ==
    IF Truthy(query) THEN Text(query[1]) ELSE Default(concepts)

\* FallbackNormalised: the question handed back as parse normalised it.
FallbackNormalised(q, p, made) == Returned(Text(lower(strip(q))), p.context, made)

\* "return question, context" with neither assigned since parse
Fallback(q, p, made) == Returned(Text(q), p.context, made)

ExecuteCall(query, result) ==
    [fn |-> "execute", text |-> query, k |-> 0, result |-> result]

DrawCall(d) == [fn |-> "draw", text |-> <<>>, k |-> 0, result |-> d]

\* lines 102-118: the context read from the graph as plot left it, and the
\* question chosen; d is what plot returned
WithContext(q, p, made, d, context) ==
    Returned(IF context # <<>> THEN FinalQuestion(q, p.query, p.concepts)
             ELSE Text(q),
             Some(context), Append(made, DrawCall(d)))

\* lines 94-100: plot changes the graph in place and its image is shown
Plotted(q, p, made, d) == WithContext(q, p, made, d, ContextOf(d.graph))

\* lines 93-94: the store runs the path query and returns the graph g
Searched(q, p, pa, g, table) ==
    IF pa.raised THEN Raised("IndexError", pa.calls)
    ELSE IF count(g) # 0
    THEN Plotted(q, p, Append(pa.calls, ExecuteCall(pa.query, g)),
                 plot(g, [graph |-> TRUE, result |-> g, table |-> table]))
    ELSE Fallback(q, p, Append(pa.calls, ExecuteCall(pa.query, g)))

\* lines 88-90, p being what parse returned
Parsed(q, emb, env, p) ==
    IF emb.graph /\ (Truthy(p.query) \/ Truthy(p.concepts))
    THEN Searched(q, p, path(p.query, p.concepts, env.answers, Context),
                  env.result, env.table)
    ELSE Fallback(q, p, <<>>)

\* __call__(question). emb.graph tells whether the embeddings have a graph;
\* env is what the collaborators answer: the searches (answers), the store
\* (result) and the scores (table).
call(q, emb, env) == Parsed(q, emb, env, parse(q))

\* ---------------------------------------------------- questions put to it

Segments == {<<"a">>, <<>>}

Tails == {<<>>, prefix \o <<"B">>}

RECURSIVE ChainTexts(_)
ChainTexts(k) ==
    IF k = 1 THEN Segments
    ELSE {c \o Arrow \o s : c \in ChainTexts(k - 1), s \in Segments}

CallQuestions ==
    {c \o t : c \in UNION {ChainTexts(k) : k \in 1..MaxSegments}, t \in Tails}

\* ids the searches return
SearchIds == {1, 2}

RECURSIVE UpTo(_, _)
UpTo(S, n) ==
    IF n = 0 THEN {<<>>}
    ELSE UpTo(S, n - 1) \cup {Append(s, x) : s \in UpTo(S, n - 1), x \in S}

\* what one search may return for k = 1, and for k = 3
Answers(k) == UpTo(SearchIds, k)

\* the searches a parsed question leads to
Searches(p) == IF Truthy(p.concepts) THEN Len(p.concepts[1]) ELSE 1

AnswerLists(p) ==
    IF Truthy(p.concepts) \/ Truthy(p.query)
    THEN [1..Searches(p) -> Answers(IF Truthy(p.concepts) THEN 1 ELSE 3)]
    ELSE {<<>>}

\* ------------------------------------------------------------ GraphContext

Init ==
    /\ pc = "ready"
    /\ question \in CallQuestions
    /\ embeddings \in [graph : BOOLEAN]
    /\ ret = NoneV
    /\ calls = NoCalls

EmptyGraph == GraphOf(<<>>, <<>>, NoEdges)

\* the anchors of a path query
Anchors(query) == {i \in 1..Len(query) : query[i][1] = Anchor(0)[1]}

\* every search the parsed question leads to finds a node
Resolved(p, answers) == \A i \in 1..Len(answers) : answers[i] # <<>>

\* What the store may return: it is asked only when the embeddings have a
\* graph and a query was built; a query without a single anchor is no path
\* and finds nothing; any other query is answered with a traversal result.
StoreResults(p, emb, answers) ==
    IF emb.graph /\ (Truthy(p.query) \/ Truthy(p.concepts)) /\ Resolved(p, answers)
    THEN CallGraphs
    ELSE {EmptyGraph}

\* the call is over with the outcome r
Finish(r, p) ==
    /\ pc' = IF r.raised = "" THEN "returned" ELSE "raised"
    /\ ret' = [raised |-> r.raised, question |-> r.question,
               context |-> r.context, parsed |-> p]
    /\ calls' = r.calls

Call ==
    /\ pc = "ready"
    /\ \E answers \in AnswerLists(parse(question)) :
       \E g \in StoreResults(parse(question), embeddings, answers) :
       \E table \in ScoreTables(g) :
          Finish(call(question, embeddings,
                      [answers |-> answers, result |-> g, table |-> table]),
                 parse(question))
    /\ UNCHANGED <<question, embeddings>>

Next == Call

Spec == Init /\ [][Next]_vars

\* ------------------------------------------------------ claims on __call__

CallsOf(name) == {i \in 1..Len(calls) : calls[i].fn = name}

\* the call is over: it returned or it raised
Called == pc = "returned" \/ pc = "raised"

\* parse found a free query or concepts
GraphQueryParsed == Truthy(ret.parsed.query) \/ Truthy(ret.parsed.concepts)

\* no context: None or the empty list
EmptyContext(context) == context = NoneV \/ context = Some(<<>>)

\* the question comes back as typed, with no context
FellBack ==
    /\ pc = "returned"
    /\ ret.question = Text(question)
    /\ EmptyContext(ret.context)

\* the store executed a query and returned this many nodes
Executed(n) == \E i \in CallsOf("execute") : count(calls[i].result) = n

Traversed == \E i \in CallsOf("execute") : count(calls[i].result) > 0

\* C1 as claimed: for a graph query put to embeddings with a graph, when
\* every search made returns no candidate, the call returns the question as
\* typed with an empty context and raises nothing.
C1_AsClaimed ==
    (/\ Called
     /\ embeddings.graph
     /\ GraphQueryParsed
     /\ \A i \in CallsOf("search") : calls[i].result = <<>>) => FellBack

\* the question has no "->" and does not start with "gq: "
Plain(q) == ~contains(q, Arrow) /\ ~startswith(lower(strip(q)), prefix)

\* C2: without a graph, or when parse finds neither concepts nor a free query
\* (as for a plain question), the question comes back as typed with no
\* context and no collaborator is called; when the traversal executed is
\* empty, the question comes back as typed with no context and nothing is
\* deduplicated or drawn.
C2_Fallback ==
    Called =>
        /\ (Plain(question) => ~GraphQueryParsed)
        /\ (~embeddings.graph \/ ~GraphQueryParsed) => (FellBack /\ calls = <<>>)
        /\ Executed(0) => (FellBack /\ CallsOf("draw") = {})

\* a chain of two concepts, both resolved, whose traversal comes back empty
C2_Witness ==
    /\ pc = "returned"
    /\ Executed(0)
    /\ Cardinality(CallsOf("search")) = 2
    /\ ret.question = Text(question)
    /\ ret.context = NoneV

HopsOf(query) == {i \in 1..Len(query) : query[i] = Hop}

\* C6: for k concepts, all resolved, the path query holds k anchors and k-1
\* hops, anchors and hops in turn, and ends with RETURN P LIMIT N; the i-th
\* anchor holds the top id that search(concept i, 1) returned.
C6_PathShape ==
    (Called /\ embeddings.graph /\ Truthy(ret.parsed.concepts)
            /\ CallsOf("execute") # {}) =>
        LET concepts == ret.parsed.concepts[1]
            k == Len(concepts)
            query == calls[CHOOSE i \in CallsOf("execute") : TRUE].text
        IN /\ Cardinality(Anchors(query)) = k
           /\ Cardinality(HopsOf(query)) = k - 1
           /\ Len(query) = 2 * k + 1
           /\ query[1] = <<"MATCH P=", 0>>
           /\ query[Len(query)] = <<" RETURN P LIMIT %", Context>>
           /\ \A i \in 1..k :
                 /\ calls[i] = SearchCall(concepts[i], 1, calls[i].result)
                 /\ query[2 * i] = Anchor(calls[i].result[1])
           /\ \A i \in 1..(k - 1) : query[2 * i + 1] = Hop

\* two concepts resolved to the ids 2 and 1, in that order
C6_Witness ==
    /\ pc = "returned"
    /\ Truthy(ret.parsed.concepts)
    /\ Len(ret.parsed.concepts[1]) = 2
    /\ CallsOf("execute") # {}
    /\ calls[1].result = <<2>>
    /\ calls[2].result = <<1>>

\* C8: when the traversal is not empty, the question returned is the free
\* query parsed, or without one the default prompt naming the concepts; it
\* is not the question as typed.
C8_FinalQuestion ==
    (pc = "returned" /\ Traversed) =>
        /\ ret.question = IF ret.parsed.query # NoneV
                          THEN Text(ret.parsed.query[1])
                          ELSE Default(ret.parsed.concepts)
        /\ ret.question # Text(question)

\* a concept chain without free query, answered with the default prompt
C8_Witness ==
    /\ pc = "returned"
    /\ Traversed
    /\ ret.parsed.query = NoneV
    /\ ret.question = Default(Some(<< <<"a">>, <<>> >>))

\* the entries of the nodes in a set, in the scan order of a graph
RECURSIVE EntriesOf(_, _, _)
EntriesOf(g, order, nodes) ==
    IF order = <<>> THEN <<>>
    ELSE (IF Head(order) \in nodes
          THEN <<[id |-> g.id[Head(order)], text |-> g.text[Head(order)]]>>
          ELSE <<>>) \o EntriesOf(g, Tail(order), nodes)

\* C10: when the traversal is not empty, the context holds one {id, text}
\* entry for each node that got a label (each survivor), in the scan order
\* of the traversal, and none for a node merged into another.
C10_ContextSurvivors ==
    (pc = "returned" /\ Traversed) =>
        LET g0 == calls[CHOOSE i \in CallsOf("execute") : TRUE].result
            d == calls[CHOOSE i \in CallsOf("draw") : TRUE].result
            merged == {d.log[i].node : i \in Merges(d)}
        IN /\ ret.context = Some(EntriesOf(g0, g0.scan, DOMAIN d.labels))
           /\ \A i \in 1..Len(ret.context[1]) : \A n \in merged :
                 ret.context[1][i].id # g0.id[n]
           /\ Len(ret.context[1]) = count(g0) - Cardinality(merged)

\* a traversal of two nodes, one merged into the other: one entry is left
C10_Witness ==
    /\ pc = "returned"
    /\ Traversed
    /\ \E i \in CallsOf("draw") :
          /\ Merges(calls[i].result) # {}
          /\ Len(ret.context[1]) = Len(calls[i].result.log) - 1

\* --------------------------------------------------------------- questions

Chunks ==
    { <<"a">>, <<"B">>, <<" ">>, Arrow, prefix, <<"G", "Q", ":", " ">> }

RECURSIVE ChunkTexts(_)
ChunkTexts(n) ==
    IF n = 0 THEN {<<>>}
    ELSE LET shorter == ChunkTexts(n - 1)
         IN shorter \cup {s \o c : s \in shorter, c \in Chunks}

Questions == ChunkTexts(MaxChunks)

\* ------------------------------------------------------ parse, on its own

InitParse ==
    /\ pc = "ready"
    /\ question \in Questions
    /\ embeddings = NoEmbeddings
    /\ ret = NoneV
    /\ calls = NoCalls

Parse ==
    /\ pc = "ready"
    /\ pc' = "parsed"
    /\ ret' = parse(question)
    /\ UNCHANGED <<question, embeddings, calls>>

NextParse == Parse

SpecParse == InitParse /\ [][NextParse]_vars

\* ---------------------------------------------------------- claims on parse

\* the question cut at every "->", as typed
RawSegments(q) == split(q, Arrow, -1)

\* each segment trimmed and lower-cased, in the order typed
TrimmedLowered(segs) == [i \in 1..Len(segs) |-> lower(strip(segs[i]))]

\* the marker, in any letter case, occurs in the text
HasMarker(text) == contains(lower(text), prefix)

ChainInput(q) == contains(q, Arrow) /\ ~HasMarker(Last(RawSegments(q)))

\* C4: a question holding "->" whose last segment holds no "gq: " marker (in
\* any letter case) parses to no free query and to one concept per segment:
\* the segments trimmed and lower-cased, in the order typed, empty and
\* repeated segments included.
C4_ConceptChain ==
    (pc = "parsed" /\ ChainInput(question)) =>
        /\ ret.query = NoneV
        /\ ret.concepts = Some(TrimmedLowered(RawSegments(question)))
        /\ Len(ret.concepts[1]) = Len(RawSegments(question))

\* a two-segment chain with an upper-case letter, padding and an empty segment
C4_Witness ==
    /\ pc = "parsed"
    /\ ChainInput(question)
    /\ question = <<" ", "B", "-", ">">>
    /\ ret.concepts = Some(<< <<"b">>, <<>> >>)

\* text before and after the first marker (any letter case) of a segment
BeforeMarker(seg) == SubSeq(seg, 1, find(lower(seg), prefix) - 1)

AfterMarker(seg) == SubSeq(seg, find(lower(seg), prefix) + Len(prefix), Len(seg))

WithLeading(concepts, lead) ==
    IF lead # <<>> THEN Append(concepts, lead) ELSE concepts

\* C5 as claimed: a graph query whose last segment holds the marker (any
\* letter case) parses to the trimmed text after the first marker as free
\* query, and to the preceding segments plus the non-empty trimmed text
\* before the marker as concepts.
C5_AsClaimed ==
    LET segs == RawSegments(question)
    IN (pc = "parsed" /\ IsGraphQuery(question) /\ HasMarker(Last(segs))) =>
        /\ ret.query = Some(strip(AfterMarker(Last(segs))))
        /\ ret.concepts =
             Some(WithLeading(TrimmedLowered(Front(segs)),
                              lower(strip(BeforeMarker(Last(segs))))))

\* C5 as amended: a graph query whose last segment still holds the marker
\* once trimmed and lower-cased parses to the trimmed, lower-cased text after
\* the first marker as free query, and to the preceding segments (trimmed,
\* lower-cased) plus the non-empty trimmed lower-cased text before the marker
\* as concepts; "gq: <text>" alone gives no concepts.
C5_PrefixedQuery ==
    LET segs == RawSegments(question)
        seg == lower(strip(Last(segs)))
    IN (pc = "parsed" /\ IsGraphQuery(question) /\ contains(seg, prefix)) =>
        /\ ret.query = Some(strip(AfterMarker(seg)))
        /\ ret.concepts =
             Some(WithLeading(TrimmedLowered(Front(segs)), strip(BeforeMarker(seg))))
        /\ (Len(segs) = 1 => ret.concepts = Some(<<>>))

\* "->BGQ: a": an empty segment, then a concept and an upper-case marker
C5_Witness ==
    /\ pc = "parsed"
    /\ question = Arrow \o <<"B", "G", "Q", ":", " ", "a">>
    /\ ret.query = Some(<<"a">>)
    /\ ret.concepts = Some(<< <<>>, <<"b">> >>)

====
